---- MODULE Spec2Model ----
(***************************************************************************)
(* Model of the AI voice receptionist backend: the dialogue manager        *)
(* (services/dialogue_service.py), the speech adapter                      *)
(* (services/speech_service.py) and the HTTP handlers of                   *)
(* routes/voice_api.py that touch temporary files and appointments.        *)
(*                                                                         *)
(* Request threads run the handlers.  A process_message turn is split at   *)
(* its blocking calls (the database reads of the system prompt, the        *)
(* vendor chat completion), so that turns of different threads interleave  *)
(* exactly where the interpreter can switch threads.                       *)
(***************************************************************************)
EXTENDS Integers, Sequences, FiniteSets, TLC

\* ------------------------------------------------------------------ bounds
MaxTurns == 2       \* most process_message turns begun in one run
MaxAppts == 2       \* most Appointment rows explored
MaxFiles == 2       \* most temporary files explored
MaxTime == 1        \* datetime.utcnow() returns a value of 1..MaxTime

Threads == {1, 2}               \* request threads of the web server
CallIds == {1, 2}               \* call_id / session_id values
StoredCalls == {1}              \* ids that have a Call row; the others have none
Replies == {"r1"}               \* texts the vendor chat API may answer
Times == 1..MaxTime
NoneMsg == 0                    \* Python None as user_message (failed transcription)
NoCall == [exists |-> FALSE]    \* Call.query.get(call_id) is None
NoTime == 0                     \* a timestamp column that is NULL

\* ------------------------------------------------------- message texts
\* The user messages the model submits, as character sequences:
\* "Can I BOOK a table?" and "What are your hours?".
MsgText ==
  << <<"C", "a", "n", " ", "I", " ", "B", "O", "O", "K", " ", "a", " ", "t", "a", "b", "l", "e", "?">>,
     <<"W", "h", "a", "t", " ", "a", "r", "e", " ", "y", "o", "u", "r", " ", "h", "o", "u", "r", "s", "?">> >>

MsgIds == 1..Len(MsgText)

UpperChars ==
  <<"A", "B", "C", "D", "E", "F", "G", "H", "I", "J", "K", "L", "M", "N", "O", "P", "Q", "R", "S", "T", "U", "V", "W", "X", "Y", "Z">>

LowerChars ==
  <<"a", "b", "c", "d", "e", "f", "g", "h", "i", "j", "k", "l", "m", "n", "o", "p", "q", "r", "s", "t", "u", "v", "w", "x", "y", "z">>

\* str.lower() on one character
LowerChar(ch) ==
  IF \E i \in 1..Len(UpperChars) : UpperChars[i] = ch
  THEN LowerChars[CHOOSE i \in 1..Len(UpperChars) : UpperChars[i] = ch]
  ELSE ch

\* user_message.lower()
Lower(text) == [i \in 1..Len(text) |-> LowerChar(text[i])]

\* keyword in text  (Python substring test)
IsSubstring(keyword, text) ==
  \E i \in 1..(Len(text) - Len(keyword) + 1) :
     SubSeq(text, i, i + Len(keyword) - 1) = keyword

appointment_keywords ==
  << <<"a", "p", "p", "o", "i", "n", "t", "m", "e", "n", "t">>,
     <<"s", "c", "h", "e", "d", "u", "l", "e">>,
     <<"b", "o", "o", "k">>,
     <<"m", "e", "e", "t", "i", "n", "g">>,
     <<"v", "i", "s", "i", "t">>,
     <<"s", "e", "e", " ", "t", "h", "e", " ", "d", "o", "c", "t", "o", "r">>,
     <<"c", "o", "n", "s", "u", "l", "t", "a", "t", "i", "o", "n">>,
     <<"a", "v", "a", "i", "l", "a", "b", "l", "e">> >>

\* Faulty variant of MatchesKeyword: the message is not lower-cased before matching.
MatchesKeywordCaseSensitive(text) ==
  \E k \in 1..Len(appointment_keywords) : IsSubstring(appointment_keywords[k], text)

\* any(keyword in user_message.lower() for keyword in appointment_keywords)
MatchesKeyword(text) ==
  \E k \in 1..Len(appointment_keywords) : IsSubstring(appointment_keywords[k], Lower(text))

\* The test of _check_appointment_intent for each message of the model.
HasKeyword == [m \in MsgIds |-> MatchesKeyword(MsgText[m])]

\* ------------------------------------------------------------------ state
VARIABLES
  client,                \* DialogueService._client_initialized / .client
  conversation_history,  \* DialogueService.conversation_history
  calls,                 \* committed Call rows, by id
  appointments,          \* committed Appointment rows, by id (index)
  tempfiles,             \* temporary files that exist on disk
  th,                    \* per request thread: position in its handler and locals
  turns,                 \* process_message turns begun so far
  phase,                 \* per call: what happened since its last end_conversation
  last                   \* the operation that returned most recently and its result

vars == <<client, conversation_history, calls, appointments, tempfiles, th, turns, phase, last>>

\* A thread that is handling no request.
Idle ==
  [pc |-> "idle", handler |-> "none", cid |-> 0, msg |-> NoneMsg, request |-> <<>>,
   start |-> <<>>, attempts |-> 0, afterEnd |-> FALSE, interfered |-> FALSE, file |-> 0]

\* The caller_phone column of the Call row of each id.
CallerPhone == <<"555-0001", "555-0002">>

\* A Call row as the model starts with it.
NewCall(c) ==
  [exists |-> TRUE, caller_phone |-> CallerPhone[c], status |-> "in_progress",
   intent |-> "none", end_time |-> NoTime]

\* {"role": "user", "content": user_message}; cid records the call the turn was submitted for
UserTurn(m, c) == [role |-> "user", content |-> m, cid |-> c]

\* {"role": "assistant", "content": ai_response}
AssistantTurn(r, c) == [role |-> "assistant", content |-> r, cid |-> c]

APOLOGY_TECH == "I apologize, but I'm having technical difficulties. Please call back later."

APOLOGY_RETRY == "I apologize, but I'm having trouble processing your request right now. Could you please repeat that?"

Init ==
  /\ client = "uninit"
  /\ conversation_history = <<>>
  /\ calls = [c \in CallIds |-> IF c \in StoredCalls THEN NewCall(c) ELSE NoCall]
  /\ appointments = <<>>
  /\ tempfiles = {}
  /\ th = [t \in Threads |-> Idle]
  /\ turns = 0
  /\ phase = [c \in CallIds |-> "new"]
  /\ last = [op |-> "init", cid |-> 0, res |-> "", val |-> ""]

\* Threads other than t that are inside a turn for call c.
InFlight(t, c) == {u \in Threads \ {t} : th[u].pc # "idle" /\ th[u].cid = c}

\* The value a handler hands back when its process_message call returned res.
\* /process-call indexes the returned string (dialogue_result['response']),
\* which raises TypeError and is answered with HTTP 500.
Returned(t, res, val) ==
  IF th[t].handler = "process_call"
  THEN [op |-> "process_call", cid |-> th[t].cid, res |-> "500", val |-> "TypeError"]
  ELSE [op |-> "process_message", cid |-> th[t].cid, res |-> res, val |-> val]


\* ------------------------------------------------ DialogueService.process_message

\* _ensure_client_initialized: the first use builds the client when an API key is
\* found (keyFound) and leaves it None otherwise; later uses change nothing.
EnsureClient(keyFound) ==
  IF client = "uninit" THEN (IF keyFound THEN "ready" ELSE "none") ELSE client

\* Faulty variant of AppendUser: the user message goes to the history of another call.
AppendUserWrongCall(hist, m, c) ==
  LET d == CHOOSE x \in CallIds : x # c
      old == IF d \in DOMAIN hist THEN hist[d] ELSE <<>>
  IN  [x \in DOMAIN hist \cup {c, d} |->
         IF x = d THEN Append(old, UserTurn(m, c))
         ELSE IF x \in DOMAIN hist THEN hist[x] ELSE <<>>]

\* Faulty variant of AppendUser: the entry is started afresh on every turn.
AppendUserDropEarlier(hist, m, c) ==
  [x \in DOMAIN hist \cup {c} |-> IF x = c THEN <<UserTurn(m, c)>> ELSE hist[x]]

\* Lines 107-114: create the entry for call_id if absent, append the user message.
AppendUser(hist, m, c) ==
  LET old == IF c \in DOMAIN hist THEN hist[c] ELSE <<>>
  IN  [x \in DOMAIN hist \cup {c} |->
         IF x = c THEN Append(old, UserTurn(m, c)) ELSE hist[x]]

\* Lines 100-114 of a turn run by thread t for handler h (which holds temporary
\* file f): initialise the client, return the first apology when there is none,
\* else append the user message and go on to build the request.
BeginTurn(t, m, c, keyFound, h, f) ==
  /\ th[t].pc = "idle"
  /\ \A u \in Threads : u < t => th[u].pc # "idle"
  /\ client # "uninit" => keyFound
  /\ turns < MaxTurns
  /\ turns' = turns + 1
  /\ client' = EnsureClient(keyFound)
  /\ IF client' = "none"
     THEN /\ last' = (IF h = "process_call"
                      THEN [op |-> "process_call", cid |-> c, res |-> "500", val |-> "TypeError"]
                      ELSE [op |-> "process_message", cid |-> c, res |-> APOLOGY_TECH, val |-> ""])
          /\ UNCHANGED <<conversation_history, th, phase>>
     ELSE /\ conversation_history' = AppendUser(conversation_history, m, c)
          /\ th' = [u \in Threads |->
                      IF u = t
                      THEN [pc |-> "build", handler |-> h, cid |-> c, msg |-> m,
                            request |-> <<>>,
                            start |-> (IF c \in DOMAIN conversation_history
                                       THEN conversation_history[c] ELSE <<>>),
                            attempts |-> 0,
                            afterEnd |-> (phase[c] = "ended" /\ c \notin DOMAIN conversation_history),
                            interfered |-> (InFlight(t, c) # {}), file |-> f]
                      ELSE IF u \in InFlight(t, c) THEN [th[u] EXCEPT !.interfered = TRUE]
                      ELSE th[u]]
          /\ phase' = [phase EXCEPT ![c] = IF @ \in {"ended", "ended_empty"} THEN "begun" ELSE @]
          /\ UNCHANGED last

\* process_message(user_message, call_id) called on the service itself.
ProcessMessage(t, m, c, keyFound) ==
  /\ BeginTurn(t, m, c, keyFound, "service", 0)
  /\ UNCHANGED <<calls, appointments, tempfiles>>

\* Lines 117-119: the messages sent, the system prompt followed by the history.
Messages(history) == <<[role |-> "system", content |-> "system prompt", cid |-> 0]>> \o history

\* Lines 117-127: read the business configuration for the system prompt (dbOk:
\* the queries succeed), read the call's history and send the request to the
\* vendor.  A failed query, or a history entry deleted meanwhile (KeyError),
\* ends the turn with the apology.
PMBuild(t, dbOk) ==
  /\ th[t].pc = "build"
  /\ IF dbOk /\ th[t].cid \in DOMAIN conversation_history
     THEN /\ th' = [th EXCEPT ![t].pc = "vendor",
                              ![t].request = conversation_history[th[t].cid],
                              ![t].attempts = @ + 1]
          /\ UNCHANGED last
     ELSE /\ th' = [th EXCEPT ![t] = Idle]
          /\ last' = Returned(t, APOLOGY_RETRY, IF dbOk THEN "KeyError" ELSE "database")
  /\ UNCHANGED <<client, conversation_history, calls, appointments, tempfiles, turns, phase>>

\* Faulty variant of PMVendorFail: a failed vendor call is tried again.
PMVendorFailRetry(t) ==
  /\ th[t].pc = "vendor"
  /\ th' = [th EXCEPT ![t].pc = "build"]
  /\ UNCHANGED <<client, conversation_history, calls, appointments, tempfiles, turns, phase, last>>

\* Faulty variant of PMVendorFail: the user message of the failed turn is taken back.
PMVendorFailUndo(t) ==
  LET c == th[t].cid IN
  /\ th[t].pc = "vendor"
  /\ th' = [th EXCEPT ![t] = Idle]
  /\ last' = Returned(t, APOLOGY_RETRY, "vendor")
  /\ conversation_history' =
       IF c \in DOMAIN conversation_history /\ Len(conversation_history[c]) > 0
       THEN [conversation_history EXCEPT ![c] = SubSeq(@, 1, Len(@) - 1)]
       ELSE conversation_history
  /\ UNCHANGED <<client, calls, appointments, tempfiles, turns, phase>>

\* Lines 122-127 raise (network, auth, quota): line 142 catches, the apology is returned.
PMVendorFail(t) ==
  /\ th[t].pc = "vendor"
  /\ th' = [th EXCEPT ![t] = Idle]
  /\ last' = Returned(t, APOLOGY_RETRY, "vendor")
  /\ UNCHANGED <<client, conversation_history, calls, appointments, tempfiles, turns, phase>>

\* _check_appointment_intent, lines 150-160: the Call row after the check.
CheckAppointmentIntent(m, call) ==
  IF HasKeyword[m] /\ call.exists
  THEN [call EXCEPT !.intent = "appointment_scheduling"]
  ELSE call

\* Lines 129-140: the vendor answered r.  Append the reply (KeyError when the
\* entry was deleted meanwhile), run the intent check (AttributeError on a None
\* message; dbOk: its query and commit succeed) and return the reply.
PMReply(t, r, dbOk) ==
  LET c == th[t].cid
      m == th[t].msg
      hasEntry == c \in DOMAIN conversation_history
      touchesDb == m # NoneMsg /\ HasKeyword[m]
      ok == hasEntry /\ m # NoneMsg /\ (touchesDb => dbOk)
  IN
  /\ th[t].pc = "vendor"
  /\ ~touchesDb => dbOk
  /\ conversation_history' =
       IF hasEntry
       THEN [conversation_history EXCEPT ![c] = Append(@, AssistantTurn(r, c))]
       ELSE conversation_history
  /\ calls' = IF ok THEN [calls EXCEPT ![c] = CheckAppointmentIntent(m, @)] ELSE calls
  /\ phase' = IF ok /\ phase[c] = "begun" THEN [phase EXCEPT ![c] = "answered"] ELSE phase
  /\ th' = [th EXCEPT ![t] = Idle]
  /\ last' = IF ok THEN Returned(t, "reply", r)
              ELSE Returned(t, APOLOGY_RETRY,
                            IF ~hasEntry THEN "KeyError"
                            ELSE IF m = NoneMsg THEN "AttributeError" ELSE "database")
  /\ UNCHANGED <<client, appointments, tempfiles, turns>>

\* ------------------------------------------------ DialogueService.end_conversation

\* Faulty variant of DropHistory: the whole map is emptied.
DropHistoryAll(hist, c) == <<>>

\* Faulty variant of DropHistory: the entry is kept.
DropHistoryKeep(hist, c) == hist

\* Lines 208-209: del self.conversation_history[call_id] when present.
DropHistory(hist, c) == [x \in DOMAIN hist \ {c} |-> hist[x]]

\* Lines 212-216: the Call row marked completed at time now.
CompleteCall(call, now) ==
  IF call.exists THEN [call EXCEPT !.status = "completed", !.end_time = now] ELSE call

\* end_conversation(call_id): drop the history, then mark the call completed
\* (dbOk: the query and the commit succeed; otherwise the exception reaches the
\* caller).  The result notes whether no turn for call_id began since the
\* previous end_conversation(call_id), that is, whether this call repeats it.
EndConversation(c, now, dbOk) ==
  /\ conversation_history' = DropHistory(conversation_history, c)
  /\ calls' = IF dbOk THEN [calls EXCEPT ![c] = CompleteCall(@, now)] ELSE calls
  /\ th' = [u \in Threads |->
              IF u \in InFlight(0, c) THEN [th[u] EXCEPT !.interfered = TRUE] ELSE th[u]]
  /\ phase' = [phase EXCEPT ![c] =
                 IF c \in DOMAIN conversation_history THEN "ended" ELSE "ended_empty"]
  /\ last' = [op |-> "end_conversation", cid |-> c,
              res |-> (IF dbOk THEN "None" ELSE "raised"),
              val |-> (IF phase[c] \in {"ended", "ended_empty"} THEN "again" ELSE "")]
  /\ UNCHANGED <<client, appointments, tempfiles, turns>>

\* ------------------------------------------------ DialogueService.create_appointment

\* The appointment_data dictionaries the model passes in.
AppointmentData ==
  {[patient_name |-> "Ann", patient_phone |-> "data-phone", patient_email |-> "ann@example.org",
    appointment_date |-> "2025-01-02", appointment_time |-> "10:30",
    service_type |-> "checkup", notes |-> "first visit"]}

\* Faulty variant of NewAppointment: the phone is taken from appointment_data, not from the call.
NewAppointmentPhoneFromData(c, call, data) ==
  [call_id |-> c, patient_name |-> data.patient_name, patient_phone |-> data.patient_phone,
   patient_email |-> data.patient_email, appointment_date |-> data.appointment_date,
   appointment_time |-> data.appointment_time, service_type |-> data.service_type,
   notes |-> data.notes, status |-> "scheduled", updated_at |-> NoTime]

\* Lines 178-188: the Appointment row built from the call and appointment_data.
NewAppointment(c, call, data) ==
  [call_id |-> c, patient_name |-> data.patient_name, patient_phone |-> call.caller_phone,
   patient_email |-> data.patient_email, appointment_date |-> data.appointment_date,
   appointment_time |-> data.appointment_time, service_type |-> data.service_type,
   notes |-> data.notes, status |-> "scheduled", updated_at |-> NoTime]

\* Faulty variant of CreateAppointmentResult: a missing call is reported as success.
CreateAppointmentResultMissingOk(call, failure) ==
  IF failure = "none" THEN "True" ELSE "False"

\* Lines 174-176, 194, 196-199: True when the call exists and nothing raised.
CreateAppointmentResult(call, failure) ==
  IF call.exists /\ failure = "none" THEN "True" ELSE "False"

\* create_appointment(call_id, appointment_data).  failure names the statement
\* that raises, if any: the query of the call, the construction of the row, or
\* the commit; line 196 then rolls the session back.
CreateAppointment(c, data, failure) ==
  LET call == calls[c]
      done == call.exists /\ failure = "none"
  IN
  /\ done => Len(appointments) < MaxAppts
  /\ ~call.exists => failure \in {"none", "query"}
  /\ appointments' = IF done THEN Append(appointments, NewAppointment(c, call, data))
                     ELSE appointments
  /\ calls' = IF done THEN [calls EXCEPT ![c].intent = "appointment_scheduled"] ELSE calls
  /\ last' = [op |-> "create_appointment", cid |-> c,
              res |-> CreateAppointmentResult(call, failure), val |-> failure]
  /\ UNCHANGED <<client, conversation_history, tempfiles, th, turns, phase>>

\* ------------------------------------------------ PUT /appointments/<id>

\* The JSON bodies the model sends: any subset of the keys status and notes.
UpdateBodies ==
  { [k \in D |-> IF k = "status" THEN "cancelled" ELSE "call back"] : D \in SUBSET {"status", "notes"} }

\* Faulty variant of ApplyUpdate: status is overwritten also when the body has no status.
ApplyUpdateAlwaysStatus(appt, body, now) ==
  [appt EXCEPT !.status = IF "status" \in DOMAIN body THEN body["status"] ELSE "None",
               !.notes = IF "notes" \in DOMAIN body THEN body["notes"] ELSE @,
               !.updated_at = now]

\* Lines 308-313: the fields update_appointment assigns.
ApplyUpdate(appt, body, now) ==
  [appt EXCEPT !.status = IF "status" \in DOMAIN body THEN body["status"] ELSE @,
               !.notes = IF "notes" \in DOMAIN body THEN body["notes"] ELSE @,
               !.updated_at = now]

\* request.get_json() of a body that is the JSON null (None, not a dictionary).
NullBody == [k \in {"null"} |-> "null"]

\* update_appointment(appointment_id).  get_or_404 raises NotFound for an
\* unknown id; NotFound is an Exception, so the handler's own except clause
\* (line 318) catches it and answers 500.  A null body raises TypeError at
\* line 308.  dbOk: the commit succeeds.
UpdateAppointment(id, body, now, dbOk) ==
  LET found == id \in 1..Len(appointments)
      done == found /\ body # NullBody /\ dbOk
  IN
  /\ (~found \/ body = NullBody) => dbOk
  /\ appointments' = IF done
                     THEN [appointments EXCEPT ![id] = ApplyUpdate(@, body, now)]
                     ELSE appointments
  /\ last' = [op |-> "update_appointment", cid |-> id,
              res |-> (IF done THEN "200" ELSE "500"),
              val |-> (IF ~found THEN "NotFound"
                       ELSE IF body = NullBody THEN "TypeError"
                       ELSE IF dbOk THEN "" ELSE "database")]
  /\ UNCHANGED <<client, conversation_history, calls, tempfiles, th, turns, phase>>

\* ------------------------------------------------ uploads: /process-call, /speech-to-text

\* SpeechService.speech_to_text(self, audio_file_path) called with nargs
\* positional arguments: anything but one raises TypeError.
SpeechToTextCall(nargs) == IF nargs = 1 THEN "called" ELSE "TypeError"

\* tempfile.NamedTemporaryFile(delete=False): a file that was not there before.
NewFile == Cardinality(tempfiles) + 1

\* process_call(), lines 27-103, up to and into its process_message call.  An
\* upload without the audio part or with an empty file name is answered 400
\* before any file is made.  io names the file operation that raises, if any.
\* text is what speech_to_text returns (NoneMsg when it failed).
ProcessCall(t, hasAudio, emptyName, io, sid, text, keyFound) ==
  \/ /\ ~hasAudio \/ emptyName
     /\ ~hasAudio => ~emptyName
     /\ io = "ok" /\ sid = 1 /\ text = NoneMsg /\ keyFound /\ t = 1
     /\ last' = [op |-> "process_call", cid |-> 0, res |-> "400",
                 val |-> (IF hasAudio THEN "No audio file selected" ELSE "No audio file provided")]
     /\ UNCHANGED <<client, conversation_history, calls, appointments, tempfiles, th, turns, phase>>
  \/ /\ hasAudio /\ ~emptyName /\ io # "ok"
     /\ sid = 1 /\ text = NoneMsg /\ keyFound /\ t = 1
     /\ Cardinality(tempfiles) < MaxFiles
     /\ tempfiles' = IF io = "save" THEN tempfiles \cup {NewFile} ELSE tempfiles
     /\ last' = [op |-> "process_call", cid |-> 0, res |-> "500", val |-> io]
     /\ UNCHANGED <<client, conversation_history, calls, appointments, th, turns, phase>>
  \/ /\ hasAudio /\ ~emptyName /\ io = "ok"
     /\ SpeechToTextCall(1) = "called"
     /\ Cardinality(tempfiles) < MaxFiles
     /\ tempfiles' = tempfiles \cup {NewFile}
     /\ BeginTurn(t, text, sid, keyFound, "process_call", NewFile)
     /\ UNCHANGED <<calls, appointments>>

\* speech_to_text(), lines 144-167.  The service is called with the path and
\* the language, one argument more than it takes, so the call raises TypeError
\* and line 162 (os.unlink) is never reached.
SpeechToTextRoute(hasAudio, emptyName, io) ==
  LET made == hasAudio /\ ~emptyName /\ io # "create"
  IN
  /\ ~hasAudio => ~emptyName
  /\ ~(hasAudio /\ ~emptyName) => io = "ok"
  /\ made => Cardinality(tempfiles) < MaxFiles
  /\ tempfiles' = IF made THEN tempfiles \cup {NewFile} ELSE tempfiles
  /\ last' = [op |-> "speech_to_text", cid |-> 0,
              res |-> (IF hasAudio /\ ~emptyName THEN "500" ELSE "400"),
              val |-> (IF ~hasAudio THEN "No audio file provided"
                       ELSE IF emptyName THEN "No audio file selected"
                       ELSE IF io # "ok" THEN io
                       ELSE SpeechToTextCall(2))]
  /\ UNCHANGED <<client, conversation_history, calls, appointments, th, turns, phase>>

\* ------------------------------------------------------------ specifications

\* The steps of a process_message turn after its first one.
TurnStep ==
  \/ \E t \in Threads, dbOk \in BOOLEAN : PMBuild(t, dbOk)
  \/ \E t \in Threads : PMVendorFail(t)
  \/ \E t \in Threads, r \in Replies, dbOk \in BOOLEAN : PMReply(t, r, dbOk)

\* The dialogue manager's conversation state: turns and end_conversation.
Next ==
  \/ \E t \in Threads, m \in MsgIds, c \in CallIds, k \in BOOLEAN : ProcessMessage(t, m, c, k)
  \/ TurnStep
  \/ \E c \in CallIds, now \in Times, dbOk \in BOOLEAN : EndConversation(c, now, dbOk)

Spec == Init /\ [][Next]_vars

\* Appointment rows: create_appointment and PUT /appointments/<id>.
NextAppt ==
  \/ \E c \in CallIds, d \in AppointmentData, f \in {"none", "query", "construct", "commit"} :
        CreateAppointment(c, d, f)
  \/ \E id \in 1..(MaxAppts + 1), b \in UpdateBodies \cup {NullBody}, now \in Times, dbOk \in BOOLEAN :
        UpdateAppointment(id, b, now, dbOk)

SpecAppt == Init /\ [][NextAppt]_vars

\* The handlers that store uploaded audio in a temporary file.
NextUpload ==
  \/ \E t \in Threads, a \in BOOLEAN, e \in BOOLEAN, io \in {"ok", "create", "save"},
        sid \in CallIds, text \in MsgIds \cup {NoneMsg}, k \in BOOLEAN :
        ProcessCall(t, a, e, io, sid, text, k)
  \/ \E a \in BOOLEAN, e \in BOOLEAN, io \in {"ok", "create", "save"} : SpeechToTextRoute(a, e, io)
  \/ TurnStep

SpecUpload == Init /\ [][NextUpload]_vars

\* ------------------------------------------------------------------ claims

\* Thread t leaves a turn that process_message was called for directly.
TurnEnds(t) == th[t].pc # "idle" /\ th'[t].pc = "idle" /\ th[t].handler = "service"

\* What the user messages of the model are expected to be classified as:
\* "Can I BOOK a table?" asks for an appointment, "What are your hours?" does not.
ExpectsAppointment == <<TRUE, FALSE>>

\* C1 as stated: end_conversation(call_id) leaves no entry for call_id, and the
\* next successful process_message(m, call_id) after it sent a request whose
\* history part is exactly [user m].
C1_NextSuccessfulTurnSendsOnlyItsMessage ==
  [][ /\ \A c \in CallIds, now \in Times, dbOk \in BOOLEAN :
           EndConversation(c, now, dbOk) => c \notin DOMAIN conversation_history'
      /\ \A t \in Threads :
           (TurnEnds(t) /\ last'.res = "reply" /\ phase[th[t].cid] = "begun" /\ ~th[t].interfered)
             => th[t].request = <<UserTurn(th[t].msg, th[t].cid)>> ]_vars

\* C1 as amended: from end_conversation(call_id) until the next turn for
\* call_id begins the map has no entry for call_id, and the first
\* process_message(m, call_id) begun after an end_conversation that dropped a
\* history, with no other turn or end_conversation for call_id overlapping it,
\* sends a request whose history part is exactly [user m].
C1_EndDropsHistoryFirstTurnFresh ==
  /\ \A c \in CallIds :
        phase[c] \in {"ended", "ended_empty"} => c \notin DOMAIN conversation_history
  /\ \A t \in Threads :
        (th[t].pc = "vendor" /\ th[t].afterEnd /\ ~th[t].interfered)
          => th[t].request = <<UserTurn(th[t].msg, th[t].cid)>>

\* C1 witness: a first turn after an end_conversation that dropped a history
\* has sent its request, which holds its own message only.
C1_Witness ==
  \E t \in Threads :
     /\ th[t].pc = "vendor" /\ th[t].afterEnd /\ ~th[t].interfered
     /\ th[t].request = <<UserTurn(th[t].msg, th[t].cid)>>

\* C3 as stated: every turn whose message holds a keyword (in any letter case)
\* leaves the call's intent appointment_scheduling, and a turn whose message
\* holds none leaves the Call rows as they were.
C3_EveryKeywordTurnSetsIntent ==
  [][ \A t \in Threads :
        (TurnEnds(t) /\ calls[th[t].cid].exists)
          => IF ExpectsAppointment[th[t].msg]
             THEN calls'[th[t].cid].intent = "appointment_scheduling"
             ELSE calls' = calls ]_vars

\* C3 as amended: a turn that returns the vendor's reply, for a call that has a
\* Call row, and whose message holds a keyword in any letter case leaves the
\* call's committed intent appointment_scheduling and every other column as it
\* was; a turn whose message holds no keyword, or that returns the apology,
\* leaves the Call rows as they were.
C3_SuccessfulKeywordTurnSetsIntent ==
  [][ \A t \in Threads :
        TurnEnds(t)
          => IF last'.res = "reply" /\ ExpectsAppointment[th[t].msg] /\ calls[th[t].cid].exists
             THEN calls' = [calls EXCEPT ![th[t].cid].intent = "appointment_scheduling"]
             ELSE calls' = calls ]_vars

\* C3 witness: a turn with "Can I BOOK a table?" returned the reply and the
\* call's intent is appointment_scheduling.
C3_Witness ==
  /\ last.op = "process_message" /\ last.res = "reply"
  /\ calls[last.cid].exists /\ calls[last.cid].intent = "appointment_scheduling"
  /\ \E i \in 1..Len(conversation_history[last.cid]) :
        conversation_history[last.cid][i] = UserTurn(1, last.cid)

\* C4: process_message always returns a string: a failed vendor call ends the
\* turn with the fixed apology, every turn ends with the reply or that apology,
\* and no turn calls the vendor more than once.
C4_FailureReturnsApologyOneAttempt ==
  [][ \A t \in Threads :
        /\ (PMVendorFail(t) /\ th[t].handler = "service")
             => /\ th'[t].pc = "idle"
                /\ last' = [op |-> "process_message", cid |-> th[t].cid,
                            res |-> APOLOGY_RETRY, val |-> "vendor"]
        /\ TurnEnds(t)
             => /\ last'.op = "process_message"
                /\ last'.res \in {"reply", APOLOGY_RETRY}
                /\ last'.res = "reply" => th[t].pc = "vendor"
        /\ th'[t].attempts <= 1 ]_vars

\* C4 witness: a turn whose vendor call failed has returned the apology.
C4_Witness ==
  last.op = "process_message" /\ last.res = APOLOGY_RETRY /\ last.val = "vendor"

\* C5: the history kept for a call, and the request sent for a call, hold only
\* turns that were submitted or answered for that call.
C5_HistoriesStayDisjoint ==
  /\ \A c \in DOMAIN conversation_history :
        \A i \in 1..Len(conversation_history[c]) : conversation_history[c][i].cid = c
  /\ \A t \in Threads :
        \A i \in 1..Len(th[t].request) : th[t].request[i].cid = th[t].cid

\* C5 witness: two turns for two different calls are in flight at once, both
\* with their requests sent.
C5_Witness ==
  /\ th[1].pc = "vendor" /\ th[2].pc = "vendor" /\ th[1].cid # th[2].cid
  /\ Len(th[1].request) > 0 /\ Len(th[2].request) > 0

\* C10 as stated: no call whose status is completed has a history entry.
C10_NoHistoryForCompletedCall ==
  \A c \in CallIds :
     (calls[c].exists /\ calls[c].status = "completed") => c \notin DOMAIN conversation_history

\* C10 as amended: a completed call has a history entry only when a
\* process_message turn for it began after its latest end_conversation.
C10_CompletedCallHistoryIsNewer ==
  \A c \in CallIds :
     (calls[c].exists /\ calls[c].status = "completed" /\ c \in DOMAIN conversation_history)
       => phase[c] \in {"begun", "answered"}

\* C10 witness: a completed call has a history entry again.
C10_Witness ==
  \E c \in CallIds :
     /\ calls[c].exists /\ calls[c].status = "completed"
     /\ c \in DOMAIN conversation_history /\ phase[c] \in {"begun", "answered"}

\* The columns of an Appointment row.
AppointmentColumns ==
  {"call_id", "patient_name", "patient_phone", "patient_email", "appointment_date",
   "appointment_time", "service_type", "notes", "status", "updated_at"}

\* C2: create_appointment for a call_id without a Call row returns False and
\* leaves the Appointment rows and the Call rows as they were.
C2_NoCallNoAppointment ==
  [][ \A c \in CallIds, d \in AppointmentData, f \in {"none", "query", "construct", "commit"} :
        (CreateAppointment(c, d, f) /\ ~calls[c].exists)
          => /\ last'.op = "create_appointment" /\ last'.res = "False"
             /\ appointments' = appointments
             /\ calls' = calls ]_vars

\* C2 witness: create_appointment was called for call 2, which has no Call
\* row, and returned False.
C2_Witness ==
  /\ last.op = "create_appointment" /\ last.res = "False" /\ last.val = "none"
  /\ ~calls[last.cid].exists

\* C6: every temporary file that exists belongs to an upload handler that has
\* not returned yet.
C6_TempFilesDeletedOnReturn ==
  \A f \in tempfiles : \E t \in Threads : th[t].pc # "idle" /\ th[t].file = f

\* C7: PUT /appointments/<id> for an id without a row is answered 404.
C7_UnknownAppointmentIs404 ==
  (last.op = "update_appointment" /\ last.val = "NotFound") => last.res = "404"

\* C8 as stated: PUT /appointments/<id> on an existing row changes at most its
\* status and notes, each only when the body holds it, and nothing else.
C8_OnlyStatusAndNotesChange ==
  [][ \A id \in 1..(MaxAppts + 1), b \in UpdateBodies, now \in Times, dbOk \in BOOLEAN :
        (UpdateAppointment(id, b, now, dbOk) /\ id \in 1..Len(appointments))
          => /\ calls' = calls
             /\ Len(appointments') = Len(appointments)
             /\ \A i \in 1..Len(appointments) : i # id => appointments'[i] = appointments[i]
             /\ \A col \in AppointmentColumns \ {"status", "notes"} :
                   appointments'[id][col] = appointments[id][col]
             /\ \A col \in {"status", "notes"} \ DOMAIN b :
                   appointments'[id][col] = appointments[id][col] ]_vars

\* C8 as amended: PUT /appointments/<id> on an existing row sets status and
\* notes to the body's values, each only when the body holds it, sets
\* updated_at to the current time, and changes nothing else; when the commit
\* fails nothing changes at all.
C8_OnlyStatusNotesUpdatedAtChange ==
  [][ \A id \in 1..(MaxAppts + 1), b \in UpdateBodies, now \in Times, dbOk \in BOOLEAN :
        (UpdateAppointment(id, b, now, dbOk) /\ id \in 1..Len(appointments))
          => /\ calls' = calls
             /\ Len(appointments') = Len(appointments)
             /\ \A i \in 1..Len(appointments) : i # id => appointments'[i] = appointments[i]
             /\ \A col \in AppointmentColumns \ {"status", "notes", "updated_at"} :
                   appointments'[id][col] = appointments[id][col]
             /\ \A col \in {"status", "notes"} :
                   appointments'[id][col] =
                     IF dbOk /\ col \in DOMAIN b THEN b[col] ELSE appointments[id][col]
             /\ appointments'[id].updated_at = IF dbOk THEN now ELSE appointments[id].updated_at
             /\ last'.res = IF dbOk THEN "200" ELSE "500" ]_vars

\* C8 witness: an update of an existing row was answered 200; the row has the
\* new status, a set updated_at, and the notes it was created with.
C8_Witness ==
  /\ last.op = "update_appointment" /\ last.res = "200"
  /\ last.cid \in 1..Len(appointments)
  /\ appointments[last.cid].status = "cancelled"
  /\ appointments[last.cid].notes = "first visit"
  /\ appointments[last.cid].updated_at # NoTime

\* C9: create_appointment on an existing call either returns False and leaves
\* the Appointment rows and the Call rows as they were (always so when a
\* statement raised), or returns True having added exactly one row, with the
\* call_id, status scheduled and the call's caller phone, and set the call's
\* intent to appointment_scheduled.
C9_CreateAppointmentAllOrNothing ==
  [][ \A c \in CallIds, d \in AppointmentData, f \in {"none", "query", "construct", "commit"} :
        (CreateAppointment(c, d, f) /\ calls[c].exists)
          => /\ f # "none" => last'.res = "False"
             /\ last'.res \in {"True", "False"}
             /\ last'.res = "False" => appointments' = appointments /\ calls' = calls
             /\ last'.res = "True" =>
                  LET n == Len(appointments') IN
                  /\ n = Len(appointments) + 1
                  /\ SubSeq(appointments', 1, n - 1) = appointments
                  /\ appointments'[n].call_id = c
                  /\ appointments'[n].status = "scheduled"
                  /\ appointments'[n].patient_phone = calls[c].caller_phone
                  /\ calls' = [calls EXCEPT ![c].intent = "appointment_scheduled"] ]_vars

\* C9 witness: create_appointment returned True and the row and the call's
\* intent are there.
C9_Witness ==
  /\ last.op = "create_appointment" /\ last.res = "True"
  /\ calls[last.cid].intent = "appointment_scheduled"
  /\ \E i \in 1..Len(appointments) :
        appointments[i].call_id = last.cid /\ appointments[i].status = "scheduled"

\* ---------------------------------------------------------------- C11 to C13

\* A step of end_conversation(c): no turn begins and no thread moves.
EndStep(c) ==
  /\ last'.op = "end_conversation" /\ last'.cid = c
  /\ turns' = turns
  /\ \A t \in Threads : th'[t].pc = th[t].pc

C12_SuccessfulTurnExtendsHistory ==
  [][ \A t \in Threads :
        (TurnEnds(t) /\ last'.res = "reply" /\ ~th[t].interfered)
          => LET c == th[t].cid
                 H == th[t].start
                 user == UserTurn(th[t].msg, c)
             IN
             /\ Messages(th[t].request) = Messages(H \o <<user>>)
             /\ Head(Messages(th[t].request)).role = "system"
             /\ last'.val \in Replies
             /\ c \in DOMAIN conversation_history'
             /\ conversation_history'[c] = H \o <<user, AssistantTurn(last'.val, c)>>
             /\ \A d \in DOMAIN conversation_history \ {c} :
                  d \in DOMAIN conversation_history'
                  /\ conversation_history'[d] = conversation_history[d] ]_vars

\* C12 witness: a turn has just succeeded on a call that already had a history;
\* the history is the earlier one followed by the user message and the reply.
C12_Witness ==
  /\ last.op = "process_message" /\ last.res = "reply"
  /\ last.cid \in DOMAIN conversation_history
  /\ LET h == conversation_history[last.cid] IN
     /\ Len(h) >= 3
     /\ h[Len(h) - 1].role = "user"
     /\ h[Len(h)] = AssistantTurn(last.val, last.cid)

\* C13: a process_message turn whose vendor call fails, and that no other turn
\* or end_conversation for the same call overlapped, returns the apology with
\* the history of its call equal to the one it started from plus its user
\* message (one entry more; a successful turn leaves two more) and with the
\* Call rows, so the intent, as they were; the request of the next turn for the
\* call is that history plus the next user message, so it ends with two user
\* turns when the turn before failed.  A turn that finds no client returns the
\* apology with the history map and the Call rows as they were.
C13_FailedTurnKeepsUserMessage ==
  [][ /\ \A t \in Threads :
           (TurnEnds(t) /\ ~th[t].interfered)
             => LET c == th[t].cid
                    H == th[t].start
                    user == UserTurn(th[t].msg, c)
                IN
                /\ last'.val = "vendor" =>
                     /\ last'.res = APOLOGY_RETRY
                     /\ c \in DOMAIN conversation_history'
                     /\ conversation_history'[c] = H \o <<user>>
                     /\ Len(conversation_history'[c]) = Len(H) + 1
                     /\ calls' = calls
                /\ last'.res = "reply" =>
                     /\ c \in DOMAIN conversation_history'
                     /\ Len(conversation_history'[c]) = Len(H) + 2
      /\ \A t \in Threads :
           (th'[t].pc = "vendor" /\ ~th'[t].interfered)
             => th'[t].request = th'[t].start \o <<UserTurn(th'[t].msg, th'[t].cid)>>
      /\ (turns' = turns + 1 /\ client' = "none" /\ last'.op = "process_message")
             => /\ last'.res = APOLOGY_TECH
                /\ conversation_history' = conversation_history
                /\ calls' = calls ]_vars

\* C13 witness: after a turn with an appointment keyword failed at the vendor,
\* the next turn for the same existing call has sent a request that ends with
\* two user turns, and the call's intent is still unset.
C13_Witness ==
  /\ last.op = "process_message" /\ last.val = "vendor" /\ last.res = APOLOGY_RETRY
  /\ calls[last.cid].exists /\ calls[last.cid].intent = "none"
  /\ \E t \in Threads :
        /\ th[t].pc = "vendor" /\ th[t].cid = last.cid /\ ~th[t].interfered
        /\ Len(th[t].request) = 2
        /\ th[t].request[1].role = "user" /\ th[t].request[2].role = "user"
        /\ HasKeyword[th[t].request[1].content]

====
